---- MODULE Spec2Model ----
(***************************************************************************)
(* A model of SOFA's router (src/src/router.ts): the default error        *)
(* handler, the per-route request handler, the POST /batch handler and     *)
(* the registration of one route per root field, and of the type mapper   *)
(* and the OpenAPI document builder (src/src/open-api/types.ts).           *)
(*                                                                         *)
(* Strings that the code inspects character by character (urls, paths,     *)
(* field names) are sequences of one-character strings.                    *)
(***************************************************************************)
EXTENDS Integers, Sequences, FiniteSets, TLC

VARIABLES
  \* defaultErrorHandler applied to a list of errors
  ehPc, ehErrors, ehResp,
  \* one call of the handler useHandler returns
  hPc,              \* where the async handler is suspended
  hCustom,          \* sofa.errorHandler is set
  hRoute,           \* config.route, info.variables and fieldName of the handler
  hReq,             \* the request: params, url, body
  hPicked,          \* what pickParam returned, by variable name
  hVariableValues,  \* variableValues
  hCtxCalls,        \* calls of sofa.contextFactory
  hExecCalls,       \* calls of sofa.execute
  hResult,          \* <<result>> once sofa.execute returned result
  hErrArg,          \* the list errorHandler was called with
  hErrCalls,        \* calls of errorHandler
  hResp,            \* the response of the handler
  \* one call of the handler of POST /batch
  bPc,              \* where the batch handler is suspended
  bLimit,           \* sofa.batching.limit
  bItems,           \* the parsed body: the array of batch items
  bItemPc,          \* per item, where its async callback is
  bDispatched,      \* per item, the calls of router.handle made for it
  bSubResp,         \* per item, the response router.handle resolved with
  bResults,         \* per item, the {status, body} its promise is fulfilled with
  bOrder,           \* the items in the order their promises were fulfilled
  bResp,            \* the response of the batch handler
  bCtxShared,       \* the route handlers get the serverContext object itself
  bCtxRequest,      \* the request field of that object: the item it was set for
  bNested,          \* per item, the sub-requests its own batch handler dispatched
  \* createRouter registering the routes of the root fields
  sPc,              \* where createRouter is
  sSchema,          \* the fields of the query type and of the mutation type
  sRoutes,          \* sofa.routes: the overrides by "<Type>.<field>"
  sBatching,        \* sofa.batching.enabled
  sRegistered,      \* the calls router.route({path, method, ...}) so far
  sInfos,           \* the RouteInfo returned for each root field so far
  \* the interface description document: components.schemas and paths
  dPc,              \* where the building of the document is
  dMode,            \* who builds it: createRouter ("router") or OpenAPI ("openapi")
  dSchema,          \* the type map of the schema: the type names and their fields
  dCustomScalars,   \* customScalars: the declared custom scalars by name
  dBatching,        \* sofa.batching.enabled
  dNext,            \* the position of the loop over the type map
  dSchemas,         \* components.schemas
  dWrites,          \* the keys of components.schemas in the order they were assigned
  dPaths,           \* paths: by path, by method, the operation object
  dAdded            \* the RouteInfos addRoute was called with

ehVars == <<ehPc, ehErrors, ehResp>>
hVars == <<hPc, hCustom, hRoute, hReq, hPicked, hVariableValues, hCtxCalls,
           hExecCalls, hResult, hErrArg, hErrCalls, hResp>>
bVars == <<bPc, bLimit, bItems, bItemPc, bDispatched, bSubResp, bResults, bOrder, bResp,
           bCtxShared, bCtxRequest, bNested>>
sVars == <<sPc, sSchema, sRoutes, sBatching, sRegistered, sInfos>>
dVars == <<dPc, dMode, dSchema, dCustomScalars, dBatching, dNext, dSchemas, dWrites,
           dPaths, dAdded>>
vars == <<ehVars, hVars, bVars, sVars, dVars>>

(***************************************************************************)
(* Bounds of the model                                                     *)
(***************************************************************************)
\* longest list of errors handed to the error handler
MaxErrors == 2
\* most key=value pairs in the query string of a request
MaxQueryPairs == 2
\* most items in the body of a batch request
MaxBatchItems == 3
\* most root fields (query and mutation fields together) of a schema
MaxRootFields == 2
\* most calls of addRoute on one document
MaxAddRoutes == 2

(***************************************************************************)
(* Generic helpers                                                         *)
(***************************************************************************)
\* all sequences over S of length 0..n
SeqsUpTo(S, n) == UNION {[1..k -> S] : k \in 0..n}

SetMax(S) == CHOOSE m \in S : \A x \in S : x <= m

\* a JS object with no own keys
EmptyObject == [k \in {} |-> ""]

\* Object.assign(target, source): source's keys win
ObjectAssignFirstWins(target, source) ==
  [k \in (DOMAIN target) \cup (DOMAIN source) |->
     IF k \in DOMAIN target THEN target[k] ELSE source[k]]

ObjectAssign(target, source) ==
  [k \in (DOMAIN target) \cup (DOMAIN source) |->
     IF k \in DOMAIN source THEN source[k] ELSE target[k]]

\* index of the first c in s at or after i, 0 when there is none
RECURSIVE IndexFrom(_, _, _)
IndexFrom(s, c, i) ==
  IF i > Len(s) THEN 0 ELSE IF s[i] = c THEN i ELSE IndexFrom(s, c, i + 1)

IndexOf(s, c) == IndexFrom(s, c, 1)

\* String.prototype.split(c) for a one-character separator
RECURSIVE Split(_, _)
Split(s, c) ==
  LET i == IndexOf(s, c)
  IN IF i = 0 THEN <<s>>
     ELSE <<SubSeq(s, 1, i - 1)>> \o Split(SubSeq(s, i + 1, Len(s)), c)

\* the concatenation of the strings of a list, sep between them
RECURSIVE Join(_, _)
Join(list, sep) ==
  IF list = <<>> THEN <<>>
  ELSE IF Len(list) = 1 THEN list[1]
  ELSE list[1] \o sep \o Join(Tail(list), sep)

\* the values f takes on a sequence
MapSeq(s, F(_)) == [i \in 1..Len(s) |-> F(s[i])]

(***************************************************************************)
(* Errors and responses                                                    *)
(*                                                                         *)
(* An error is [msg, obj, hasHttp, status, headers]:                       *)
(*   obj      it is a non-null object (typeof error === 'object')          *)
(*   hasHttp  error.extensions.http is set                                 *)
(*   status   error.extensions.http.status, 0 when it is not set           *)
(*   headers  error.extensions.http.headers, the empty object when not set *)
(***************************************************************************)
MkError(msg, obj, hasHttp, status, headers) ==
  [msg |-> msg, obj |-> obj, hasHttp |-> hasHttp, status |-> status,
   headers |-> headers]

\* createGraphQLError(message, {extensions: {http: {status}}})
createGraphQLError(msg, status) == MkError(msg, TRUE, TRUE, status, EmptyObject)

\* delete error.extensions.http
StripHttp(error) == MkError(error.msg, error.obj, FALSE, 0, EmptyObject)

DefaultHeaders == ("Content-Type" :> "application/json; charset=utf-8")

\* One iteration of the loop of defaultErrorHandler over the running
\* (status, headers); status 0 is the still undefined `status`.
EHStepMinStatus(acc, error) ==
  IF error.obj /\ error.hasHttp
  THEN [status |-> IF error.status # 0 /\ (acc.status = 0 \/ error.status < acc.status)
                   THEN error.status ELSE acc.status,
        headers |-> ObjectAssign(acc.headers, error.headers)]
  ELSE acc

EHStep(acc, error) ==
  IF error.obj /\ error.hasHttp
  THEN [status |-> IF error.status # 0 /\ (acc.status = 0 \/ error.status > acc.status)
                   THEN error.status ELSE acc.status,
        headers |-> ObjectAssign(acc.headers, error.headers)]
  ELSE acc

RECURSIVE EHLoop(_, _, _)
EHLoop(acc, errors, i) ==
  IF i > Len(errors) THEN acc ELSE EHLoop(EHStep(acc, errors[i]), errors, i + 1)

\* the error as it is serialized: the loop deleted extensions.http of every
\* object error that had one

EHSerialized(error) == IF error.obj /\ error.hasHttp THEN StripHttp(error) ELSE error

\* Response.json(body, {status, headers}); kind says what the body is:
\* "data" (data), "errors" ({errors}), "custom", "none" (no response yet)
JsonResponse(status, headers, kind, data, errors) ==
  [status |-> status, headers |-> headers, kind |-> kind, data |-> data,
   errors |-> errors]

defaultErrorHandler(errors) ==
  LET acc == EHLoop([status |-> 0, headers |-> DefaultHeaders], errors, 1)
  IN JsonResponse(IF acc.status = 0 THEN 500 ELSE acc.status, acc.headers,
                  "errors", "", [i \in 1..Len(errors) |-> EHSerialized(errors[i])])

NoResponse == JsonResponse(0, EmptyObject, "none", "", <<>>)

\* a sofa.errorHandler of the application: some other function of the errors
customErrorHandler(errors) == JsonResponse(422, EmptyObject, "custom", "", errors)

\* const errorHandler = sofa.errorHandler || defaultErrorHandler
ErrorHandler(custom, errors) ==
  IF custom THEN customErrorHandler(errors) ELSE defaultErrorHandler(errors)

(***************************************************************************)
(* The errors the model hands to the error handler                         *)
(***************************************************************************)
HintStatuses == {0, 400, 404, 503}
HintHeaders ==
  {EmptyObject, ("X-A" :> "1"), ("X-A" :> "2"), ("X-B" :> "1"),
   ("X-A" :> "1") @@ ("Retry-After" :> "9")}

ErrorPool ==
  {MkError("e", TRUE, TRUE, s, h) : s \in HintStatuses, h \in HintHeaders}
  \cup {MkError("e", TRUE, FALSE, 0, EmptyObject),   \* no extensions.http
        MkError("e", FALSE, FALSE, 0, EmptyObject)}  \* a thrown non-object

(***************************************************************************)
(* defaultErrorHandler on every list of errors                             *)
(***************************************************************************)
EhInit ==
  /\ ehPc = "called"
  /\ ehErrors \in SeqsUpTo(ErrorPool, MaxErrors)
  /\ ehResp = NoResponse

EhIdle ==
  /\ ehPc = "off"
  /\ ehErrors = <<>>
  /\ ehResp = NoResponse

ApplyErrorHandler ==
  /\ ehPc = "called"
  /\ ehResp' = defaultErrorHandler(ehErrors)
  /\ ehPc' = "returned"
  /\ UNCHANGED ehErrors
  /\ UNCHANGED <<hVars, bVars, sVars, dVars>>

(***************************************************************************)
(* Request-time variable extraction                                        *)
(***************************************************************************)
\* One name=value segment of a query string: the name is what precedes the
\* first "=", the value what follows it (empty when there is no "=").
ParsePair(seg) ==
  LET i == IndexOf(seg, "=")
  IN IF i = 0 THEN [name |-> seg, value |-> <<>>]
     ELSE [name |-> SubSeq(seg, 1, i - 1), value |-> SubSeq(seg, i + 1, Len(seg))]

\* The application/x-www-form-urlencoded parser: the list of (name, value) of
\* the non-empty segments between "&". (The alphabet of the model has no "+"
\* and no "%", so there is nothing to decode.)
ParseUrlEncoded(str) ==
  LET segs == SelectSeq(Split(str, "&"), LAMBDA seg : seg # <<>>)
  IN [i \in 1..Len(segs) |-> ParsePair(segs[i])]

\* new URLSearchParams(init): one leading "?" is dropped
URLSearchParams(init) ==
  ParseUrlEncoded(IF init # <<>> /\ init[1] = "?" THEN Tail(init) ELSE init)

\* searchParams.getAll(name)
GetAll(searchParams, name) ==
  LET hits == SelectSeq(searchParams, LAMBDA p : p.name = name)
  IN [i \in 1..Len(hits) |-> hits[i].value]

\* A raw value: where it was found (src "none": undefined), whether it is an
\* array of strings, its string(s), and whether it is the JSON null.
Raw(src, isArray, vals, isNull) ==
  [src |-> src, isArray |-> isArray, vals |-> vals, isNull |-> isNull]

Undefined == Raw("none", FALSE, <<>>, FALSE)

\* url.split('?')[1], the empty string standing for undefined
\* (new URLSearchParams(undefined) is empty too)
UrlSplitQuery(url) ==
  LET parts == Split(url, "?")
  IN IF Len(parts) >= 2 THEN parts[2] ELSE <<>>

pickParam(name, url, params, body) ==
  LET values == GetAll(URLSearchParams(UrlSplitQuery(url)), name)
  IN IF name \in DOMAIN params THEN Raw("params", FALSE, <<params[name]>>, FALSE)
     ELSE IF values # <<>> THEN Raw("query", Len(values) # 1, values, FALSE)
     ELSE IF body.truthy /\ name \in DOMAIN body.obj
       THEN Raw("body", FALSE, <<body.obj[name].str>>, body.obj[name].null)
     ELSE Undefined

Digits == {"1", "5", "7"}

\* parseVariable of ./parse: undefined and null give undefined (the variable is
\* not provided); a string is coerced to the variable's type, and a value that
\* cannot be coerced throws. ok: it did not throw; defined: it returned a value.
parseVariable(raw, variable) ==
  IF raw.src = "none" \/ raw.isNull
  THEN [ok |-> TRUE, defined |-> FALSE, type |-> variable.type, text |-> <<>>]
  ELSE IF raw.isArray
  THEN [ok |-> FALSE, defined |-> FALSE, type |-> variable.type, text |-> <<>>]
  ELSE IF variable.type = "Int"
          /\ (raw.vals[1] = <<>> \/ \E i \in 1..Len(raw.vals[1]) : raw.vals[1][i] \notin Digits)
  THEN [ok |-> FALSE, defined |-> FALSE, type |-> variable.type, text |-> <<>>]
  ELSE [ok |-> TRUE, defined |-> TRUE, type |-> variable.type, text |-> raw.vals[1]]

(***************************************************************************)
(* The handler of one route (useHandler)                                   *)
(***************************************************************************)
\* String.prototype.includes
Includes(s, sub) ==
  \E i \in 1..(Len(s) - Len(sub) + 1) : SubSeq(s, i, i + Len(sub) - 1) = sub

\* isInPath of open-api/operations
isInPath(url, param) ==
  Includes(url, <<":">> \o param) \/ Includes(url, <<"{">> \o param \o <<"}">>)

IdName == <<"i", "d">>
QName == <<"q">>

\* the variables of the synthetic operation of both routes: $id: ID!, $q: Int
RouteVariables ==
  <<[name |-> IdName, type |-> "ID", nonNull |-> TRUE],
    [name |-> QName, type |-> "Int", nonNull |-> FALSE]>>

\* GET /user/:id, the default route of the query field user(id: ID!, q: Int)
RouteUser ==
  [fieldName |-> <<"u", "s", "e", "r">>, method |-> "GET",
   path |-> <<"/", "u", "s", "e", "r", "/", ":", "i", "d">>,
   responseStatus |-> 200, variables |-> RouteVariables]

\* POST /add with response status 201, a route of the mutation field
\* add(id: ID!, q: Int) with an override of the status
RouteAdd ==
  [fieldName |-> <<"a", "d", "d">>, method |-> "POST",
   path |-> <<"/", "a", "d", "d">>,
   responseStatus |-> 201, variables |-> RouteVariables]

HandlerRoutes == {RouteUser, RouteAdd}

\* JSON values of the keys of a body
JsonString(str) == [null |-> FALSE, str |-> str]
JsonNull == [null |-> TRUE, str |-> <<>>]

\* request.body / request.text(): kind "absent" is request.body == null,
\* "empty" the empty text, "invalid" a text JSON.parse throws on, "null" the
\* text null, "object" the text of the object obj
RequestBody(kind, obj) == [kind |-> kind, obj |-> obj]

RequestBodies ==
  {RequestBody("absent", EmptyObject), RequestBody("empty", EmptyObject),
   RequestBody("invalid", EmptyObject), RequestBody("null", EmptyObject),
   RequestBody("object", (IdName :> JsonString(<<"5">>)) @@ (QName :> JsonNull)),
   RequestBody("object", (QName :> JsonString(<<"7">>)))}

QueryKeys == {IdName, QName}
QueryValues == {<<"1">>, <<"x">>, <<"1", "?">>}

\* the text name=value of a pair
PairText(pair) == pair[1] \o <<"=">> \o pair[2]

\* the url of a request to pathname with the given pairs as its query string
UrlOf(pathname, pairs) ==
  IF pairs = <<>> THEN pathname
  ELSE pathname \o <<"?">> \o Join(MapSeq(pairs, PairText), <<"&">>)

RequestUrls ==
  {UrlOf(<<"/", "r">>, pairs) : pairs \in SeqsUpTo(QueryKeys \X QueryValues, MaxQueryPairs)}

RequestParams == {EmptyObject, (IdName :> <<"7">>)}

Requests ==
  [params : RequestParams, url : RequestUrls, body : RequestBodies]

\* let body = {}; ... body = JSON.parse(strBody): ok is FALSE when JSON.parse
\* throws; truthy is FALSE for the parsed null
ParseBody(reqBody) ==
  [ok |-> reqBody.kind # "invalid",
   truthy |-> reqBody.kind # "null",
   obj |-> IF reqBody.kind = "object" THEN reqBody.obj ELSE EmptyObject]

InvalidJsonError == createGraphQLError("POST body sent invalid JSON.", 400)

\* the error of the catch around the reduce, without its status hint
CoercionErrorNoHint == MkError("coercion", TRUE, FALSE, 0, EmptyObject)

\* the error of the catch around the reduce
CoercionError == createGraphQLError("coercion", 400)

\* info.variables.reduce(...): pickParam and parseVariable for each variable in
\* order, up to the first one parseVariable throws on (failed: its index, 0 when
\* none throws)
ResolveVariables(variables, req, body) ==
  LET picked == [i \in 1..Len(variables) |->
                   pickParam(variables[i].name, req.url, req.params, body)]
      parsed == [i \in 1..Len(variables) |-> parseVariable(picked[i], variables[i])]
      bad == {i \in 1..Len(variables) : ~parsed[i].ok}
      failed == IF bad = {} THEN 0 ELSE CHOOSE i \in bad : \A j \in bad : i <= j
      done == IF failed = 0 THEN 1..Len(variables) ELSE 1..failed
      given == {i \in done : parsed[i].ok /\ parsed[i].defined}
  IN [failed |-> failed,
      picked |-> [n \in {variables[i].name : i \in done} |->
                    picked[CHOOSE i \in done : variables[i].name = n]],
      values |-> [n \in {variables[i].name : i \in given} |->
                    LET i == CHOOSE j \in given : variables[j].name = n
                    IN [type |-> parsed[i].type, text |-> parsed[i].text]]]

\* the results sofa.execute returns for a field: errorsSet is `result.errors`
\* being an array (truthy, also when it is empty); data is result.data (the
\* empty object standing for no data)
ExecResult(errorsSet, errors, data) ==
  [errorsSet |-> errorsSet, errors |-> errors, data |-> data]

FieldError == MkError("field", TRUE, FALSE, 0, EmptyObject)

ExecResults(fieldName) ==
  {ExecResult(FALSE, <<>>, (fieldName :> "row")),
   ExecResult(FALSE, <<>>, EmptyObject),
   ExecResult(TRUE, <<>>, (fieldName :> "row")),
   ExecResult(TRUE, <<FieldError>>, EmptyObject),
   ExecResult(TRUE, <<MkError("field", TRUE, TRUE, 400, ("X-A" :> "1")),
                      MkError("field", TRUE, TRUE, 404, ("X-B" :> "1"))>>,
              (fieldName :> "row"))}

\* what the context factory or execute may throw
ThrownErrors ==
  {MkError("thrown", TRUE, FALSE, 0, EmptyObject),
   MkError("thrown", TRUE, TRUE, 401, EmptyObject)}

\* result.data?.[fieldName]
RootFieldData(result, fieldName) ==
  IF fieldName \in DOMAIN result.data THEN result.data[fieldName] ELSE "undefined"

\* return errorHandler(errors)
RespondErrors(errors) ==
  /\ hErrArg' = errors
  /\ hErrCalls' = hErrCalls + 1
  /\ hResp' = ErrorHandler(hCustom, errors)
  /\ hPc' = "done"

\* The handler from the parsing of the body text to its first await after it:
\* JSON.parse, the reduce over info.variables, and the call of the context
\* factory (the awaits of an async function split it into steps).
AfterBodyText(route, req) ==
  LET body == ParseBody(req.body)
      resolved == ResolveVariables(route.variables, req, body)
  IN IF ~body.ok
     THEN /\ RespondErrors(<<InvalidJsonError>>)
          /\ UNCHANGED <<hPicked, hVariableValues, hCtxCalls, hExecCalls, hResult>>
     ELSE IF resolved.failed # 0
     THEN /\ RespondErrors(<<CoercionError>>)
          /\ hPicked' = resolved.picked
          /\ UNCHANGED <<hVariableValues, hCtxCalls, hExecCalls, hResult>>
     ELSE /\ hPicked' = resolved.picked
          /\ hVariableValues' = resolved.values
          /\ hCtxCalls' = hCtxCalls + 1
          /\ hPc' = "context"
          /\ UNCHANGED <<hExecCalls, hResult, hErrArg, hErrCalls, hResp>>

\* A request arrives at the handler of a route. With a body the handler awaits
\* request.text(); without one it runs on to the call of the context factory.
HandleRequest ==
  /\ hPc = "idle"
  /\ \E route \in HandlerRoutes, req \in Requests :
       /\ hRoute' = route
       /\ hReq' = req
       /\ IF req.body.kind # "absent"
          THEN /\ hPc' = "text"
               /\ UNCHANGED <<hPicked, hVariableValues, hCtxCalls, hExecCalls,
                              hResult, hErrArg, hErrCalls, hResp>>
          ELSE AfterBodyText(route, req)
  /\ UNCHANGED hCustom
  /\ UNCHANGED <<ehVars, bVars, sVars, dVars>>

\* request.text() resolves
BodyTextRead ==
  /\ hPc = "text"
  /\ AfterBodyText(hRoute, hReq)
  /\ UNCHANGED <<hCustom, hRoute, hReq>>
  /\ UNCHANGED <<ehVars, bVars, sVars, dVars>>

\* sofa.contextFactory resolves and sofa.execute is called, or it throws
ContextFactoryReturns ==
  /\ hPc = "context"
  /\ \/ /\ hExecCalls' = hExecCalls + 1
        /\ hPc' = "execute"
        /\ UNCHANGED <<hErrArg, hErrCalls, hResp>>
     \/ \E error \in ThrownErrors : 
          /\ RespondErrors(<<error>>)
          /\ UNCHANGED hExecCalls
  /\ UNCHANGED <<hCustom, hRoute, hReq, hPicked, hVariableValues, hCtxCalls, hResult>>
  /\ UNCHANGED <<ehVars, bVars, sVars, dVars>>

\* sofa.execute resolves with a result, or throws
ExecuteReturns ==
  /\ hPc = "execute"
  /\ \/ \E result \in ExecResults(hRoute.fieldName) :
          /\ hResult' = <<result>>
          /\ IF result.errorsSet
             THEN RespondErrors(result.errors)
             ELSE /\ hResp' = JsonResponse(hRoute.responseStatus, EmptyObject, "data",
                                           RootFieldData(result, hRoute.fieldName), <<>>)
                  /\ hPc' = "done"
                  /\ UNCHANGED <<hErrArg, hErrCalls>>
     \/ \E error \in ThrownErrors :
          /\ RespondErrors(<<error>>)
          /\ UNCHANGED hResult
  /\ UNCHANGED <<hCustom, hRoute, hReq, hPicked, hVariableValues, hCtxCalls, hExecCalls>>
  /\ UNCHANGED <<ehVars, bVars, sVars, dVars>>

HInit ==
  /\ hPc = "idle"
  /\ hCustom \in BOOLEAN
  /\ hRoute = RouteUser
  /\ hReq = [params |-> EmptyObject, url |-> <<>>, body |-> RequestBody("absent", EmptyObject)]
  /\ hPicked = EmptyObject
  /\ hVariableValues = EmptyObject
  /\ hCtxCalls = 0
  /\ hExecCalls = 0
  /\ hResult = <<>>
  /\ hErrArg = <<>>
  /\ hErrCalls = 0
  /\ hResp = NoResponse

HIdle ==
  /\ hPc = "off"
  /\ hCustom = FALSE
  /\ hRoute = RouteUser
  /\ hReq = [params |-> EmptyObject, url |-> <<>>, body |-> RequestBody("absent", EmptyObject)]
  /\ hPicked = EmptyObject
  /\ hVariableValues = EmptyObject
  /\ hCtxCalls = 0
  /\ hExecCalls = 0
  /\ hResult = <<>>
  /\ hErrArg = <<>>
  /\ hErrCalls = 0
  /\ hResp = NoResponse

(***************************************************************************)
(* The handler of POST /batch                                              *)
(***************************************************************************)
\* the values of sofa.batching.limit the model is set up with
BatchingLimits == {2, 3}

\* The paths of batch items: /a is the path of a route, /n matches no route,
\* and // is a path new URL(path, 'http://localhost') throws on (a host is
\* expected after "//" and there is none).
PathRoute == <<"/", "a">>
PathNoRoute == <<"/", "n">>
PathInvalid == <<"/", "/">>

\* /batch is the path of the batch route itself
PathBatch == <<"/", "b", "a", "t", "c", "h">>

\* the params of a batch item: not given, or an array
NoParams == [given |-> FALSE, array |-> <<>>]
ArrayParams(array) == [given |-> TRUE, array |-> array]

\* the items of the array a batch item for /batch carries as params
InnerItem == [path |-> PathRoute, method |-> "GET", params |-> NoParams]

\* a batch item {path: '/batch', method: 'POST', params: [...]}: its request
\* has the body JSON.stringify(params), an array of batch items
NestedBatchItems ==
  {[path |-> PathBatch, method |-> "POST",
    params |-> ArrayParams([k \in 1..n |-> InnerItem])] : n \in {2, 3}}

BatchItems ==
  [path : {PathRoute, PathNoRoute, PathInvalid}, method : {"GET"}, params : {NoParams}]
  \cup NestedBatchItems

\* new URL(path, 'http://localhost') and new Request(url, opts) return
RequestConstructs(item) == item.path # PathInvalid

\* body.length > sofa.batching.limit
ExceedsLimitOffByOne(length, limit) == length >= limit

ExceedsLimit(length, limit) == length > limit

\* A sub-response: its status, whether res.json() can read its body, and the
\* body, which is the router's answer to the item's own request (tag: the item).
SubResponse(status, json, tag) == [status |-> status, json |-> json, tag |-> tag]

NoSubResponse == SubResponse(0, FALSE, 0)

\* What router.handle resolves with for the request of item i: for the path of
\* a route what its handler returns (the data at 200, or {errors} at the status
\* of the error handler); for a path without a route a 404 whose body is no JSON.
SubResponses(item, i) ==
  IF item.path = PathRoute
  THEN {SubResponse(200, TRUE, i), SubResponse(400, TRUE, i), SubResponse(500, TRUE, i)}
  ELSE {SubResponse(404, FALSE, i)}

\* what the batch handler entered for an item for /batch answers: the 413, or
\* the array of the results of its own items
NestedResponse(item, limit, i) ==
  IF ExceedsLimit(Len(item.params.array), limit)
  THEN SubResponse(413, TRUE, i) ELSE SubResponse(200, TRUE, i)

\* the {status, body} an item's callback returns
ResponseBody(res) == [status |-> res.status, body |-> res.tag]

NoResultSlot == [status |-> 0, body |-> 0]

\* the value Promise.all(promises) is fulfilled with, were it in the order of
\* fulfilment
PromiseAllInCompletionOrder(results, order) ==
  [i \in 1..Len(results) |-> results[order[i]]]

\* the value Promise.all(promises) is fulfilled with: the values of the
\* promises in the order of the promises
PromiseAll(results, order) == [i \in 1..Len(results) |-> results[i]]

BatchResponse(kind, status, body) == [kind |-> kind, status |-> status, body |-> body]

NoBatchResponse == BatchResponse("none", 0, <<>>)

\* POST /batch arrives; the handler awaits request.json()
BatchRequest ==
  /\ bPc = "idle"
  /\ \E items \in SeqsUpTo(BatchItems, MaxBatchItems) :
       /\ bItems' = items
       /\ bItemPc' = [i \in 1..Len(items) |-> "created"]
       /\ bDispatched' = [i \in 1..Len(items) |-> 0]
       /\ bSubResp' = [i \in 1..Len(items) |-> NoSubResponse]
       /\ bResults' = [i \in 1..Len(items) |-> NoResultSlot]
       /\ bNested' = [i \in 1..Len(items) |-> 0]
  /\ bPc' = "json"
  /\ UNCHANGED <<bLimit, bOrder, bResp, bCtxShared, bCtxRequest>>
  /\ UNCHANGED <<ehVars, hVars, sVars, dVars>>

\* request.json() resolved: the limit test, then body.map(...), which
\* runs every item's callback up to its first await (the request is built and
\* router.handle is called, or building it throws and the item's promise is
\* rejected), then Promise.all is awaited.
BatchStart ==
  /\ bPc = "json"
  /\ IF ExceedsLimit(Len(bItems), bLimit)
     THEN /\ bResp' = BatchResponse("tooLarge", 413, <<>>)
          /\ bPc' = "done"
          /\ UNCHANGED <<bItemPc, bDispatched>>
     ELSE /\ bItemPc' = [i \in 1..Len(bItems) |->
                           IF RequestConstructs(bItems[i]) THEN "handling" ELSE "rejected"]
          /\ bDispatched' = [i \in 1..Len(bItems) |->
                               IF RequestConstructs(bItems[i])
                               THEN bDispatched[i] + 1 ELSE bDispatched[i]]
          /\ bPc' = "joining"
          /\ UNCHANGED bResp
  /\ UNCHANGED <<bLimit, bItems, bSubResp, bResults, bOrder, bCtxShared, bCtxRequest, bNested>>
  /\ UNCHANGED <<ehVars, hVars, sVars, dVars>>

\* The route handler of item i is entered (the item's path is that of a route
\* and its request has no body): it runs to its first await, which is
\* Object.assign(serverContext, {request}) and the call of
\* sofa.contextFactory(sofaContext). serverContext is the object the batch
\* handler gave router.handle, the same for every item, when the router hands
\* it on as it is.
SubHandlerEnters(i) ==
  /\ bItemPc[i] = "handling"
  /\ bItems[i].path = PathRoute
  /\ bCtxRequest' = IF bCtxShared THEN i ELSE bCtxRequest
  /\ bItemPc' = [bItemPc EXCEPT ![i] = "context"]
  /\ UNCHANGED <<bPc, bLimit, bItems, bDispatched, bSubResp, bResults, bOrder, bResp,
                 bCtxShared, bNested>>
  /\ UNCHANGED <<ehVars, hVars, sVars, dVars>>

\* The batch handler is entered for item i, an item for /batch: its
\* request.json() is the array the item has as params; over the limit it
\* answers 413, else it calls router.handle for each of that array's items.
NestedBatchStart(i) ==
  /\ bItemPc[i] = "handling"
  /\ bItems[i].path = PathBatch
  /\ bNested' = [bNested EXCEPT ![i] =
                   IF ExceedsLimit(Len(bItems[i].params.array), bLimit) THEN 0
                   ELSE Cardinality({k \in 1..Len(bItems[i].params.array) :
                                       RequestConstructs(bItems[i].params.array[k])})]
  /\ bItemPc' = [bItemPc EXCEPT ![i] = "inner"]
  /\ UNCHANGED <<bPc, bLimit, bItems, bDispatched, bSubResp, bResults, bOrder, bResp,
                 bCtxShared, bCtxRequest>>
  /\ UNCHANGED <<ehVars, hVars, sVars, dVars>>

\* router.handle(req, serverContext) of item i settles: it resolves with a
\* response and res.json() is called, or it rejects and so does the item's promise
SubHandleSettles(i) ==
  /\ bItemPc[i] = (IF bItems[i].path = PathRoute THEN "context"
                   ELSE IF bItems[i].path = PathBatch THEN "inner"
                   ELSE "handling")
  /\ \/ \E res \in (IF bItems[i].path = PathBatch
                     THEN {NestedResponse(bItems[i], bLimit, i)}
                     ELSE SubResponses(bItems[i], i)) :
          /\ bSubResp' = [bSubResp EXCEPT ![i] = res]
          /\ bItemPc' = [bItemPc EXCEPT ![i] = "reading"]
     \/ /\ bItemPc' = [bItemPc EXCEPT ![i] = "rejected"]
        /\ UNCHANGED bSubResp
  /\ UNCHANGED <<bPc, bLimit, bItems, bDispatched, bResults, bOrder, bResp,
                 bCtxShared, bCtxRequest, bNested>>
  /\ UNCHANGED <<ehVars, hVars, sVars, dVars>>

\* res.json() of item i settles: the item's promise is fulfilled with
\* {status, body}, or res.json() rejects (the body is no JSON) and so does the
\* item's promise
SubJsonSettles(i) ==
  /\ bItemPc[i] = "reading"
  /\ IF bSubResp[i].json
     THEN /\ bResults' = [bResults EXCEPT ![i] = ResponseBody(bSubResp[i])]
          /\ bOrder' = Append(bOrder, i)
          /\ bItemPc' = [bItemPc EXCEPT ![i] = "fulfilled"]
     ELSE /\ bItemPc' = [bItemPc EXCEPT ![i] = "rejected"]
          /\ UNCHANGED <<bResults, bOrder>>
  /\ UNCHANGED <<bPc, bLimit, bItems, bDispatched, bSubResp, bResp,
                 bCtxShared, bCtxRequest, bNested>>
  /\ UNCHANGED <<ehVars, hVars, sVars, dVars>>

\* every promise is fulfilled: Promise.all is, and the handler returns
\* Response.json(responses)
BatchJoin ==
  /\ bPc = "joining"
  /\ \A i \in 1..Len(bItems) : bItemPc[i] = "fulfilled"
  /\ bResp' = BatchResponse("ok", 200, PromiseAll(bResults, bOrder))
  /\ bPc' = "done"
  /\ UNCHANGED <<bLimit, bItems, bItemPc, bDispatched, bSubResp, bResults, bOrder,
                 bCtxShared, bCtxRequest, bNested>>
  /\ UNCHANGED <<ehVars, hVars, sVars, dVars>>

\* a promise is rejected: Promise.all rejects, the handler has no catch and its
\* own promise rejects; no array of results is returned. The callbacks of the
\* other items run on.
BatchReject ==
  /\ bPc = "joining"
  /\ \E i \in 1..Len(bItems) : bItemPc[i] = "rejected"
  /\ bResp' = BatchResponse("rejected", 0, <<>>)
  /\ bPc' = "done"
  /\ UNCHANGED <<bLimit, bItems, bItemPc, bDispatched, bSubResp, bResults, bOrder,
                 bCtxShared, bCtxRequest, bNested>>
  /\ UNCHANGED <<ehVars, hVars, sVars, dVars>>

BInit ==
  /\ bPc = "idle"
  /\ bLimit \in BatchingLimits
  /\ bCtxShared \in BOOLEAN
  /\ bCtxRequest = 0
  /\ bNested = <<>>
  /\ bItems = <<>>
  /\ bItemPc = <<>>
  /\ bDispatched = <<>>
  /\ bSubResp = <<>>
  /\ bResults = <<>>
  /\ bOrder = <<>>
  /\ bResp = NoBatchResponse

BIdle ==
  /\ bPc = "off"
  /\ bLimit = 0
  /\ bCtxShared = FALSE
  /\ bCtxRequest = 0
  /\ bNested = <<>>
  /\ bItems = <<>>
  /\ bItemPc = <<>>
  /\ bDispatched = <<>>
  /\ bSubResp = <<>>
  /\ bResults = <<>>
  /\ bOrder = <<>>
  /\ bResp = NoBatchResponse

(***************************************************************************)
(* The type mapper: GraphQL types and variable type nodes to JSON Schema   *)
(* (src/src/open-api/types.ts)                                             *)
(***************************************************************************)
\* A type is the list of its wrappers, outermost first, over a named type:
\* [A!]! is <<"NonNull", "List", "NonNull">> over the object type A.
isNonNullType(type) == type.wrappers # <<>> /\ Head(type.wrappers) = "NonNull"
isObjectType(type) == type.wrappers = <<>> /\ type.kind = "object"
ofType(type) == [type EXCEPT !.wrappers = Tail(@)]

\* the kind of every named type the schemas of the model use
IntrospectionTypeNames == {"__Type"}
ObjectTypeNames == {"Query", "Mutation", "A", "B", "BatchItem"} \cup IntrospectionTypeNames
InputTypeNames == {"In", "In2"}
EnumTypeNames == {"Color"}
BuiltinScalarNames == {"Int", "Float", "String", "Boolean", "ID"}
ScalarTypeNames == BuiltinScalarNames \cup {"Date", "JSON"}

KindOf(name) ==
  IF name \in ObjectTypeNames THEN "object"
  ELSE IF name \in InputTypeNames THEN "input"
  ELSE IF name \in EnumTypeNames THEN "enum"
  ELSE "scalar"

\* a GraphQLType: the wrappers, outermost first, over the named type
GraphQLType(wrappers, name) == [wrappers |-> wrappers, kind |-> KindOf(name), name |-> name]

\* the TypeNode of a variable definition: NON_NULL_TYPE and LIST_TYPE nodes over
\* a NAMED_TYPE node, which carries the name only
TypeNode(wrappers, name) == [wrappers |-> wrappers, name |-> name]

\* the type node buildOperationNodeForField gives the variable of an argument
TypeNodeOf(type) == TypeNode(type.wrappers, type.name)

isListType(type) == type.wrappers # <<>> /\ Head(type.wrappers) = "List"
isInputObjectType(type) == type.wrappers = <<>> /\ type.kind = "input"
isScalarType(type) == type.wrappers = <<>> /\ type.kind = "scalar"
isEnumType(type) == type.wrappers = <<>> /\ type.kind = "enum"

\* mapToPrimitive: undefined for a name that is not in formatMap
formatMap ==
  [Int |-> [type |-> "integer", format |-> "int32"],
   Float |-> [type |-> "number", format |-> "float"],
   String |-> [type |-> "string"],
   Boolean |-> [type |-> "boolean"],
   ID |-> [type |-> "string"]]

HasPrimitive(name) == name \in DOMAIN formatMap
mapToPrimitive(name) == formatMap[name]

\* mapToRef: `#/components/schemas/${type}`
mapToRef(name) == <<"#/components/schemas/", name>>

Ref(name) == [ref |-> mapToRef(name)]
ObjectPlaceholder == [type |-> "object"]
ArrayOf(items) == [type |-> "array", items |-> items]

\* the values of the enum types
EnumValues(name) == <<"RED", "GREEN">>
EnumSchema(name) == [type |-> "string", enum |-> EnumValues(name)]

\* resolveEnumTypes(schema) / sofa.enumTypes: the enum types by name
resolveEnumTypes == [name \in EnumTypeNames |-> EnumSchema(name)]

\* addExampleFromDirective with no example directive configured
addExampleFromDirective(component) == component

\* resolveFieldType(type, opts)
RECURSIVE resolveFieldType(_, _)
resolveFieldType(type, customScalars) ==
  IF isNonNullType(type) THEN resolveFieldType(ofType(type), customScalars)
  ELSE IF isListType(type)
    THEN ArrayOf(addExampleFromDirective(resolveFieldType(ofType(type), customScalars)))
  ELSE IF type.name \in DOMAIN customScalars THEN Ref(type.name)
  ELSE IF isObjectType(type) THEN Ref(type.name)
  ELSE IF isScalarType(type)
    THEN (IF HasPrimitive(type.name) THEN mapToPrimitive(type.name) ELSE ObjectPlaceholder)
  ELSE IF isEnumType(type) THEN EnumSchema(type.name)
  ELSE ObjectPlaceholder

\* resolveParamSchema(type, opts) on the type node of a variable
RECURSIVE resolveParamSchema(_, _, _)
resolveParamSchema(type, customScalars, enumTypes) ==
  IF type.wrappers # <<>> /\ Head(type.wrappers) = "NonNull"
    THEN resolveParamSchema(ofType(type), customScalars, enumTypes)
  ELSE IF type.wrappers # <<>> /\ Head(type.wrappers) = "List"
    THEN ArrayOf(addExampleFromDirective(
           resolveParamSchema(ofType(type), customScalars, enumTypes)))
  ELSE IF type.name \in DOMAIN customScalars THEN Ref(type.name)
  ELSE IF HasPrimitive(type.name) THEN mapToPrimitive(type.name)
  ELSE IF type.name \in DOMAIN enumTypes THEN enumTypes[type.name]
  ELSE Ref(type.name)

\* the names of the fields of a type, in the order of type.getFields()
FieldNamesOf(fields) == {fields[i].name : i \in 1..Len(fields)}
FieldNamed(fields, name) == CHOOSE i \in 1..Len(fields) : fields[i].name = name

\* the required list of buildSchemaObjectFromType: the non-null fields, in
\* field order
RequiredOf(fields) ==
  LET nonNull == SelectSeq(fields, LAMBDA field : isNonNullType(field.type))
  IN [i \in 1..Len(nonNull) |-> nonNull[i].name]

\* buildSchemaObjectFromType(type, opts) for a type with these fields and no
\* descriptions; the required key is left out when no field is non-null
buildSchemaObjectFromType(fields, customScalars) ==
  LET properties ==
        [name \in FieldNamesOf(fields) |->
           addExampleFromDirective(
             resolveFieldType(fields[FieldNamed(fields, name)].type, customScalars))]
  IN IF RequiredOf(fields) # <<>>
     THEN [type |-> "object", required |-> RequiredOf(fields), properties |-> properties]
     ELSE [type |-> "object", properties |-> properties]
(***************************************************************************)
(* createRouter: one route per root field                                  *)
(***************************************************************************)
\* isSingle that forgets the non-null wrapper
isSingleBareOnly(fieldType) == isObjectType(fieldType)

\* const isSingle = isObjectType(fieldType) ||
\*   (isNonNullType(fieldType) && isObjectType(fieldType.ofType))
isSingle(fieldType) ==
  \/ isObjectType(fieldType)
  \/ isNonNullType(fieldType) /\ isObjectType(ofType(fieldType))

\* field.args.some((arg) => arg.name === 'id')
hasIdArgument(field) == \E i \in 1..Len(field.args) : field.args[i].name = IdName

UpperCase == {"M"}
ToLower(c) == IF c = "M" THEN "m" ELSE c

\* convertName of ./common: the name in kebab case, a "-" before every capital
\* that is not the first letter and the capital in lower case
RECURSIVE KebabFrom(_, _)
KebabFrom(name, i) ==
  IF i > Len(name) THEN <<>>
  ELSE (IF name[i] \in UpperCase /\ i > 1 THEN <<"-">> ELSE <<>>)
       \o <<ToLower(name[i])>> \o KebabFrom(name, i + 1)

convertName(name) == KebabFrom(name, 1)

\* getPath(fieldName, hasId = false)
getPath(fieldName, hasId) ==
  <<"/">> \o convertName(fieldName) \o (IF hasId THEN <<"/", ":", "i", "d">> ELSE <<>>)

\* `${type.name}.${fieldName}`
graphqlPath(typeName, fieldName) == typeName \o <<".">> \o fieldName

QueryTypeName == <<"Q", "u", "e", "r", "y">>
MutationTypeName == <<"M", "u", "t", "a", "t", "i", "o", "n">>

RootTypeName(kind) == IF kind = "query" THEN QueryTypeName ELSE MutationTypeName

\* An entry of sofa.routes: given holds the keys the entry sets
RouteConfig(given, method, path, responseStatus, tags, description) ==
  [given |-> given, method |-> method, path |-> path,
   responseStatus |-> responseStatus, tags |-> tags, description |-> description]

\* no entry: sofa.routes?.[graphqlPath] is undefined
NoRouteConfig == RouteConfig({}, "", <<>>, 0, <<>>, "")

\* an override that counts only when it sets every key
CoalesceAllOrNothing(routeConfig, key, fallback) ==
  IF routeConfig.given = {"method", "path", "responseStatus", "tags", "description"}
  THEN routeConfig[key] ELSE fallback

\* routeConfig?.key ?? fallback
Coalesce(routeConfig, key, fallback) ==
  IF key \in routeConfig.given THEN routeConfig[key] ELSE fallback

\* sofa.routes?.[graphqlPath]
RouteConfigOf(routes, key) == IF key \in DOMAIN routes THEN routes[key] ELSE NoRouteConfig

\* String.prototype.toUpperCase on a method
ToUpperCase(method) == IF method = "get" THEN "GET" ELSE method

\* the route of createQueryRoute: method, path and responseStatus
QueryRoute(field, routeConfig) ==
  [method |-> Coalesce(routeConfig, "method", "GET"),
   path |-> Coalesce(routeConfig, "path",
                     getPath(field.name, isSingle(field.type) /\ hasIdArgument(field))),
   responseStatus |-> Coalesce(routeConfig, "responseStatus", 200)]

\* the route of createMutationRoute
MutationRoute(field, routeConfig) ==
  [method |-> Coalesce(routeConfig, "method", "POST"),
   path |-> Coalesce(routeConfig, "path", getPath(field.name, FALSE)),
   responseStatus |-> Coalesce(routeConfig, "responseStatus", 200)]

\* field.description ?? ''
FieldDescription(field) == IF field.description = "undefined" THEN "" ELSE field.description

\* the type of an argument; an argument given by name and nullability only is
\* an ID when it is named id and a String otherwise
ArgType(arg) ==
  IF "type" \in DOMAIN arg THEN arg.type
  ELSE GraphQLType(IF arg.nonNull THEN <<"NonNull">> ELSE <<>>,
                   IF arg.name = IdName THEN "ID" ELSE "String")

\* info.variables: the synthetic operation has one variable per argument of the
\* root field, with the argument's name and type
OperationVariables(field) ==
  [i \in 1..Len(field.args) |->
     [name |-> field.args[i].name, type |-> TypeNodeOf(ArgType(field.args[i]))]]

\* variable.type.kind === Kind.NON_NULL_TYPE
IsNonNullTypeNode(type) == type.wrappers # <<>> /\ Head(type.wrappers) = "NonNull"

useRequestBody(method) == method \in {"POST", "PUT", "PATCH"}

\* the names of the variables put in the path object (inPath) or in the query
\* object by the loop of getRouteSchemas
VarNamesIn(variables, path, inPath) ==
  {variables[i].name : i \in {j \in 1..Len(variables) :
                                isInPath(path, variables[j].name) = inPath}}

VarNamed(variables, name) == CHOOSE i \in 1..Len(variables) : variables[i].name = name

\* the required list a loop over the variables pushes to
RequiredVars(variables) ==
  LET nonNull == SelectSeq(variables, LAMBDA v : IsNonNullTypeNode(v.type))
  IN [i \in 1..Len(nonNull) |-> nonNull[i].name]

\* params or query of getRouteSchemas: {properties, required}
VarObj(variables, path, inPath, customScalars, enumTypes) ==
  [properties |->
     [name \in VarNamesIn(variables, path, inPath) |->
        addExampleFromDirective(
          resolveParamSchema(variables[VarNamed(variables, name)].type,
                             customScalars, enumTypes))],
   required |->
     RequiredVars(SelectSeq(variables, LAMBDA v : isInPath(path, v.name) = inPath))]

\* resolveRequestBody(variables, ...): every variable it is given is a property
resolveRequestBody(variables, customScalars, enumTypes) ==
  LET properties ==
        [name \in {variables[i].name : i \in 1..Len(variables)} |->
           resolveParamSchema(variables[VarNamed(variables, name)].type,
                              customScalars, enumTypes)]
  IN IF RequiredVars(variables) # <<>>
     THEN [type |-> "object", properties |-> properties,
           required |-> RequiredVars(variables)]
     ELSE [type |-> "object", properties |-> properties]

\* resolveResponse: the schema of the type of the root field
resolveResponse(field, customScalars) == resolveFieldType(field.type, customScalars)

\* request.json of a route whose method takes no body
NoJson == [type |-> "undefined"]

\* getRouteSchemas({field, method, path, info, sofa, responseStatus}), with no
\* custom scalars configured
getRouteSchemas(field, method, path, variables, responseStatus) ==
  [request |->
     [json |-> IF useRequestBody(method)
               THEN resolveRequestBody(variables, EmptyObject, resolveEnumTypes)
               ELSE NoJson,
      params |-> VarObj(variables, path, TRUE, EmptyObject, resolveEnumTypes),
      query |-> VarObj(variables, path, FALSE, EmptyObject, resolveEnumTypes)],
   responses |-> (responseStatus :> resolveResponse(field, EmptyObject))]

\* a route registered without schemas
NoSchemas == [request |-> [json |-> NoJson]]

\* a call router.route({path, method, schemas, handler}) for a root field
Registration(kind, fieldName, route, schemas) ==
  [kind |-> kind, fieldName |-> fieldName, method |-> route.method,
   path |-> route.path, responseStatus |-> route.responseStatus,
   schemas |-> schemas]

\* the RouteInfo createQueryRoute returns
QueryRouteInfo(field, route, routeConfig) ==
  [kind |-> "query", fieldName |-> field.name, path |-> route.path,
   method |-> ToUpperCase(route.method),
   tags |-> Coalesce(routeConfig, "tags", <<>>),
   description |-> Coalesce(routeConfig, "description", FieldDescription(field))]

\* the RouteInfo createMutationRoute returns (tags: routeConfig?.tags || [])
MutationRouteInfo(field, route, routeConfig) ==
  [kind |-> "mutation", fieldName |-> field.name, path |-> route.path,
   method |-> route.method,
   tags |-> Coalesce(routeConfig, "tags", <<>>),
   description |-> Coalesce(routeConfig, "description", FieldDescription(field))]

\* the routes createRouter registers that belong to no root field
WebhookRoutes ==
  <<[kind |-> "fixed", fieldName |-> <<>>, method |-> "POST",
     path |-> <<"/", "w">>, responseStatus |-> 200, schemas |-> NoSchemas],
    [kind |-> "fixed", fieldName |-> <<>>, method |-> "POST",
     path |-> <<"/", "w", "/", ":", "i", "d">>, responseStatus |-> 200,
     schemas |-> NoSchemas],
    [kind |-> "fixed", fieldName |-> <<>>, method |-> "DELETE",
     path |-> <<"/", "w", "/", ":", "i", "d">>, responseStatus |-> 200,
     schemas |-> NoSchemas]>>

BatchRoute ==
  [kind |-> "fixed", fieldName |-> <<>>, method |-> "POST",
   path |-> <<"/", "b">>, responseStatus |-> 200,
   schemas |-> [request |-> [json |-> [type |-> "array", items |-> Ref("BatchItem"),
                                        minItems |-> 1]]]]

(***************************************************************************)
(* The schemas and the overrides the model is set up with                  *)
(***************************************************************************)
Arg(name, nonNull) == [name |-> name, nonNull |-> nonNull]

ReturnTypes ==
  {GraphQLType(<<>>, "A"), GraphQLType(<<"NonNull">>, "A"),
   GraphQLType(<<"NonNull", "List", "NonNull">>, "A"), GraphQLType(<<"NonNull">>, "String")}

ArgLists == {<<Arg(IdName, TRUE)>>, <<Arg(<<"n">>, FALSE)>>}

\* the names of the fields of a root type, in the order of its field map; the
\* first has a description
FieldNames ==
  <<<<"g", "e", "t", "M", "e">>, <<"m", "e">>, <<"a", "l", "l">>, <<"o", "n", "e">>>>

FieldShapes == [type : ReturnTypes, args : ArgLists]

Field(name, shape, description) ==
  [name |-> name, type |-> shape.type, args |-> shape.args, description |-> description]

FieldsOf(shapes) ==
  [i \in 1..Len(shapes) |->
     Field(FieldNames[i], shapes[i], IF i = 1 THEN "doc" ELSE "undefined")]

\* the schemas with at most MaxRootFields root fields
Schemas ==
  UNION {{[query |-> FieldsOf(q), mutation |-> FieldsOf(m)] :
            m \in SeqsUpTo(FieldShapes, MaxRootFields - Len(q))} :
         q \in SeqsUpTo(FieldShapes, MaxRootFields)}

RouteConfigs ==
  {RouteConfig({"path"}, "", <<"/", "o", "/", ":", "i", "d">>, 0, <<>>, ""),
   RouteConfig({"method"}, "PUT", <<>>, 0, <<>>, ""),
   RouteConfig({"responseStatus"}, "", <<>>, 201, <<>>, ""),
   RouteConfig({"tags", "description"}, "", <<>>, 0, <<"t">>, "override doc"),
   RouteConfig({"method", "path", "responseStatus", "tags", "description"},
               "get", <<"/", "o">>, 202, <<"t">>, "")}

\* the keys of sofa.routes that name a root field of the schema
RouteKeys(schema) ==
  {graphqlPath(QueryTypeName, schema.query[i].name) : i \in 1..Len(schema.query)}
  \cup {graphqlPath(MutationTypeName, schema.mutation[i].name) : i \in 1..Len(schema.mutation)}

\* sofa.routes with no entry or with one entry
RouteTables(schema) ==
  {EmptyObject} \cup {(key :> config) : key \in RouteKeys(schema), config \in RouteConfigs}

(***************************************************************************)
(* The steps of createRouter                                               *)
(***************************************************************************)
RegisteredFor(kind) == Len(SelectSeq(sRegistered, LAMBDA r : r.kind = kind))

\* createQueryRoute for the next field of the query type
CreateQueryRoute ==
  /\ sPc = "routes"
  /\ RegisteredFor("query") < Len(sSchema.query)
  /\ LET field == sSchema.query[RegisteredFor("query") + 1]
         routeConfig == RouteConfigOf(sRoutes, graphqlPath(QueryTypeName, field.name))
         route == QueryRoute(field, routeConfig)
     IN /\ sRegistered' = Append(sRegistered, Registration("query", field.name, route,
                         getRouteSchemas(field, route.method, route.path,
                                         OperationVariables(field),
                                         route.responseStatus)))
        /\ sInfos' = Append(sInfos, QueryRouteInfo(field, route, routeConfig))
  /\ UNCHANGED <<sPc, sSchema, sRoutes, sBatching>>
  /\ UNCHANGED <<ehVars, hVars, bVars, dVars>>

\* createMutationRoute for the next field of the mutation type, once every
\* query field has its route
CreateMutationRoute ==
  /\ sPc = "routes"
  /\ RegisteredFor("query") = Len(sSchema.query)
  /\ RegisteredFor("mutation") < Len(sSchema.mutation)
  /\ LET field == sSchema.mutation[RegisteredFor("mutation") + 1]
         routeConfig == RouteConfigOf(sRoutes, graphqlPath(MutationTypeName, field.name))
         route == MutationRoute(field, routeConfig)
     IN /\ sRegistered' = Append(sRegistered, Registration("mutation", field.name, route,
                         getRouteSchemas(field, route.method, route.path,
                                         OperationVariables(field),
                                         route.responseStatus)))
        /\ sInfos' = Append(sInfos, MutationRouteInfo(field, route, routeConfig))
  /\ UNCHANGED <<sPc, sSchema, sRoutes, sBatching>>
  /\ UNCHANGED <<ehVars, hVars, bVars, dVars>>

\* the webhook routes and, with batching enabled, the batch route; createRouter
\* returns the router
RegisterFixedRoutes ==
  /\ sPc = "routes"
  /\ RegisteredFor("query") = Len(sSchema.query)
  /\ RegisteredFor("mutation") = Len(sSchema.mutation)
  /\ sRegistered' = sRegistered \o WebhookRoutes
                      \o (IF sBatching THEN <<BatchRoute>> ELSE <<>>)
  /\ sPc' = "done"
  /\ UNCHANGED <<sSchema, sRoutes, sBatching, sInfos>>
  /\ UNCHANGED <<ehVars, hVars, bVars, dVars>>

SInit ==
  /\ sPc = "routes"
  /\ sSchema \in Schemas
  /\ sRoutes \in RouteTables(sSchema)
  /\ sBatching \in BOOLEAN
  /\ sRegistered = <<>>
  /\ sInfos = <<>>

SIdle ==
  /\ sPc = "off"
  /\ sSchema = [query |-> <<>>, mutation |-> <<>>]
  /\ sRoutes = EmptyObject
  /\ sBatching = FALSE
  /\ sRegistered = <<>>
  /\ sInfos = <<>>

(***************************************************************************)
(* The interface description document: components.schemas seeded from the  *)
(* type map by createRouter or by OpenAPI, then the batching setup or       *)
(* addRoute                                                                 *)
(***************************************************************************)
\* a field of a type of the type map, and an argument of a root field
TypeField(name, type, args) == [name |-> name, type |-> type, args |-> args]
TypedArg(name, type) == [name |-> name, type |-> type]

isIntrospectionType(name) == name \in IntrospectionTypeNames

\* the fields of the root types: a(id: ID!, when: Date, j: JSON): A!,
\* b(in: In!, c: [Color!], n: Int): [B!]! and put(id: ID!, in: In): A
QueryFields ==
  <<TypeField("a", GraphQLType(<<"NonNull">>, "A"),
              <<TypedArg(IdName, GraphQLType(<<"NonNull">>, "ID")),
                TypedArg(<<"w">>, GraphQLType(<<>>, "Date")),
                TypedArg(<<"j">>, GraphQLType(<<>>, "JSON"))>>),
    TypeField("b", GraphQLType(<<"NonNull", "List", "NonNull">>, "B"),
              <<TypedArg(<<"i", "n">>, GraphQLType(<<"NonNull">>, "In")),
                TypedArg(<<"c">>, GraphQLType(<<"List", "NonNull">>, "Color")),
                TypedArg(<<"n">>, GraphQLType(<<>>, "Int"))>>)>>

MutationFields ==
  <<TypeField("put", GraphQLType(<<>>, "A"),
              <<TypedArg(IdName, GraphQLType(<<"NonNull">>, "ID")),
                TypedArg(<<"i", "n">>, GraphQLType(<<>>, "In"))>>)>>

\* the fields the object types A and B and the input type In are given
FieldsOfA ==
  {<<TypeField("b", GraphQLType(<<>>, "B"), <<>>)>>,
   <<TypeField("b", GraphQLType(<<"NonNull">>, "B"), <<>>),
     TypeField("n", GraphQLType(<<>>, "String"), <<>>)>>,
   <<TypeField("self", GraphQLType(<<"NonNull", "List", "NonNull">>, "A"), <<>>),
     TypeField("d", GraphQLType(<<>>, "Date"), <<>>)>>,
   <<TypeField("j", GraphQLType(<<>>, "JSON"), <<>>),
     TypeField("c", GraphQLType(<<"NonNull">>, "Color"), <<>>)>>}

FieldsOfB ==
  {<<TypeField("a", GraphQLType(<<>>, "A"), <<>>)>>,
   <<TypeField("as", GraphQLType(<<"List">>, "A"), <<>>)>>,
   <<TypeField("n", GraphQLType(<<"NonNull">>, "Int"), <<>>)>>}

FieldsOfIn ==
  {<<TypeField("n", GraphQLType(<<"NonNull">>, "String"), <<>>)>>,
   <<TypeField("self", GraphQLType(<<>>, "In"), <<>>)>>,
   <<TypeField("other", GraphQLType(<<"NonNull">>, "In2"), <<>>),
     TypeField("d", GraphQLType(<<>>, "Date"), <<>>)>>}

FieldsOfIn2 == <<TypeField("back", GraphQLType(<<>>, "In"), <<>>)>>
FieldsOfBatchItem == <<TypeField("n", GraphQLType(<<>>, "Int"), <<>>)>>
FieldsOfIntrospection == <<TypeField("name", GraphQLType(<<>>, "String"), <<>>)>>

\* schema.getTypeMap(): the names in the order of the map and, for the object
\* and input types, their fields; the schema may have a type named BatchItem
TypeMap(fieldsA, fieldsB, fieldsIn, withBatchItem) ==
  [order |-> <<"Query", "Mutation", "A", "B">>
               \o (IF withBatchItem THEN <<"BatchItem">> ELSE <<>>)
               \o <<"In", "In2", "Color", "Date", "JSON", "String", "Int", "ID", "__Type">>,
   fields |-> [Query |-> QueryFields, Mutation |-> MutationFields,
               A |-> fieldsA, B |-> fieldsB, BatchItem |-> FieldsOfBatchItem,
               In |-> fieldsIn, In2 |-> FieldsOfIn2, __Type |-> FieldsOfIntrospection]]

TypeMaps ==
  {TypeMap(fieldsA, fieldsB, fieldsIn, withBatchItem) :
     fieldsA \in FieldsOfA, fieldsB \in FieldsOfB, fieldsIn \in FieldsOfIn,
     withBatchItem \in BOOLEAN}

\* customScalars: none declared, or Date declared
CustomScalarsPool == {EmptyObject, [Date |-> [type |-> "string", format |-> "date"]]}

\* the component createRouter makes of a declared custom scalar:
\* {description: type.description, ...sofa.customScalars[typeName]}
CustomScalarComponent(name, customScalars) ==
  addExampleFromDirective(
    ObjectAssign([description |-> "undefined"], customScalars[name]))

\* the component the batching setup assigns to the key BatchItem
BatchItemSchema ==
  [type |-> "object",
   properties |-> [path |-> [type |-> "string", format |-> "uri"],
                   method |-> [type |-> "string", enum |-> <<"POST", "GET">>],
                   params |-> [type |-> "object", additionalProperties |-> TRUE]],
   additionalProperties |-> FALSE,
   required |-> <<"path", "method">>]

\* target[key] = value
SetKey(target, key, value) == ObjectAssign(target, (key :> value))

\* normalizePathParamForOpenAPI: each part :name of the path becomes {name}
normalizePathParamForOpenAPI(path) ==
  Join(MapSeq(Split(path, "/"),
              LAMBDA part : IF part # <<>> /\ Head(part) = ":"
                            THEN <<"{">> \o Tail(part) \o <<"}">> ELSE part),
       <<"/">>)

\* String.prototype.toLowerCase on a method
ToLowerCase(method) ==
  IF method = "GET" THEN "get" ELSE IF method = "POST" THEN "post"
  ELSE IF method = "PUT" THEN "put" ELSE method

\* a RouteInfo: its document is the operation of a root field
RouteInfo(kind, fieldName, path, method, tags) ==
  [kind |-> kind, fieldName |-> fieldName, path |-> path, method |-> method,
   tags |-> tags, description |-> ""]

\* the RouteInfos addRoute is called with: the default routes of a, b and put,
\* a second method on the path of a, and a second route at the path and
\* method of a
RouteInfos ==
  {RouteInfo("query", "a", <<"/", "a", "/", ":", "i", "d">>, "GET", <<>>),
   RouteInfo("query", "b", <<"/", "b">>, "GET", <<>>),
   RouteInfo("mutation", "put", <<"/", "p", "u", "t">>, "POST", <<>>),
   RouteInfo("mutation", "put", <<"/", "a", "/", ":", "i", "d">>, "PUT", <<>>),
   RouteInfo("query", "b", <<"/", "a", "/", ":", "i", "d">>, "GET", <<"t">>)}

\* the root field an operation selects
RootField(schema, kind, fieldName) ==
  LET fields == schema.fields[IF kind = "query" THEN "Query" ELSE "Mutation"]
  IN fields[FieldNamed(fields, fieldName)]

\* resolveParameters(url, variables, ...)
resolveParameters(url, variables, customScalars, enumTypes) ==
  [i \in 1..Len(variables) |->
     [in |-> IF isInPath(url, variables[i].name) THEN "path" ELSE "query",
      name |-> variables[i].name,
      required |-> IsNonNullTypeNode(variables[i].type),
      schema |-> resolveParamSchema(variables[i].type, customScalars, enumTypes)]]

\* requestBody of an operation that has none
NoRequestBody == [type |-> "undefined"]

\* buildPathFromOperation({url, operation, schema, useRequestBody, tags,
\* description, customScalars})
buildPathFromOperation(url, field, useBody, tags, description, customScalars) ==
  LET variables == OperationVariables(field)
      pathParams == SelectSeq(variables, LAMBDA v : isInPath(url, v.name))
      bodyParams == SelectSeq(variables, LAMBDA v : ~isInPath(url, v.name))
  IN [tags |-> tags,
      description |-> description,
      operationId |-> field.name,
      parameters |->
        resolveParameters(url, IF useBody THEN pathParams ELSE variables,
                          customScalars, resolveEnumTypes),
      requestBody |->
        IF useBody THEN resolveRequestBody(bodyParams, customScalars, resolveEnumTypes)
        ELSE NoRequestBody,
      responses |-> resolveResponse(field, customScalars)]

\* the loop over the type map, one type a step: an object or input type that
\* is no introspection type gets its component; in createRouter a declared
\* custom scalar gets one too. After the last type the document is built.
BuildComponent ==
  /\ dPc = "seeding"
  /\ LET typeName == dSchema.order[dNext]
         type == GraphQLType(<<>>, typeName)
     IN IF (isObjectType(type) \/ isInputObjectType(type)) /\ ~isIntrospectionType(typeName)
        THEN /\ dSchemas' = SetKey(dSchemas, typeName,
                                   buildSchemaObjectFromType(dSchema.fields[typeName],
                                                             dCustomScalars))
             /\ dWrites' = Append(dWrites, typeName)
        ELSE IF /\ dMode = "router"
                /\ ~isIntrospectionType(typeName)
                /\ typeName \in DOMAIN dCustomScalars
        THEN /\ dSchemas' = SetKey(dSchemas, typeName,
                                   CustomScalarComponent(typeName, dCustomScalars))
             /\ dWrites' = Append(dWrites, typeName)
        ELSE UNCHANGED <<dSchemas, dWrites>>
  /\ dNext' = dNext + 1
  /\ dPc' = IF dNext = Len(dSchema.order) THEN "built" ELSE "seeding"
  /\ UNCHANGED <<dMode, dSchema, dCustomScalars, dBatching, dPaths, dAdded>>
  /\ UNCHANGED <<ehVars, hVars, bVars, sVars>>

\* createRouter with batching enabled: the component BatchItem is assigned
BatchingSetup ==
  /\ dPc = "built"
  /\ dMode = "router"
  /\ dBatching
  /\ dSchemas' = SetKey(dSchemas, "BatchItem", BatchItemSchema)
  /\ dWrites' = Append(dWrites, "BatchItem")
  /\ dPc' = "done"
  /\ UNCHANGED <<dMode, dSchema, dCustomScalars, dBatching, dNext, dPaths, dAdded>>
  /\ UNCHANGED <<ehVars, hVars, bVars, sVars>>

\* addRoute(info) on the document OpenAPI(...) returned, without a basePath
AddRoute ==
  /\ dPc = "built"
  /\ dMode = "openapi"
  /\ Len(dAdded) < MaxAddRoutes
  /\ \E info \in RouteInfos :
       LET path == normalizePathParamForOpenAPI(info.path)
           pathsObj == IF path \in DOMAIN dPaths THEN dPaths[path] ELSE EmptyObject
           operation ==
             buildPathFromOperation(path,
                                    RootField(dSchema, info.kind, info.fieldName),
                                    info.method \in {"POST", "PUT", "PATCH"},
                                    info.tags, info.description, dCustomScalars)
       IN /\ dPaths' = SetKey(dPaths, path,
                              SetKey(pathsObj, ToLowerCase(info.method), operation))
          /\ dAdded' = Append(dAdded, info)
  /\ UNCHANGED <<dPc, dMode, dSchema, dCustomScalars, dBatching, dNext, dSchemas, dWrites>>
  /\ UNCHANGED <<ehVars, hVars, bVars, sVars>>

DInit ==
  /\ dPc = "seeding"
  /\ dMode \in {"router", "openapi"}
  /\ dSchema \in TypeMaps
  /\ dCustomScalars \in CustomScalarsPool
  /\ dBatching \in BOOLEAN
  /\ dNext = 1
  /\ dSchemas = EmptyObject
  /\ dWrites = <<>>
  /\ dPaths = EmptyObject
  /\ dAdded = <<>>

DIdle ==
  /\ dPc = "off"
  /\ dMode = "off"
  /\ dSchema = [order |-> <<>>, fields |-> EmptyObject]
  /\ dCustomScalars = EmptyObject
  /\ dBatching = FALSE
  /\ dNext = 1
  /\ dSchemas = EmptyObject
  /\ dWrites = <<>>
  /\ dPaths = EmptyObject
  /\ dAdded = <<>>
(***************************************************************************)
(* Specifications                                                          *)
(***************************************************************************)
\* defaultErrorHandler alone
InitErr == EhInit /\ HIdle /\ BIdle /\ SIdle /\ DIdle
NextErr == ApplyErrorHandler
SpecErr == InitErr /\ [][NextErr]_vars

\* one request through the handler of a route
InitHandler == HInit /\ EhIdle /\ BIdle /\ SIdle /\ DIdle
NextHandler ==
  \/ HandleRequest
  \/ BodyTextRead
  \/ ContextFactoryReturns
  \/ ExecuteReturns
SpecHandler == InitHandler /\ [][NextHandler]_vars

\* one POST /batch call and its sub-requests
InitBatch == BInit /\ EhIdle /\ HIdle /\ SIdle /\ DIdle
NextBatch ==
  \/ BatchRequest
  \/ BatchStart
  \/ \E i \in 1..Len(bItems) : SubHandlerEnters(i)
  \/ \E i \in 1..Len(bItems) : NestedBatchStart(i)
  \/ \E i \in 1..Len(bItems) : SubHandleSettles(i)
  \/ \E i \in 1..Len(bItems) : SubJsonSettles(i)
  \/ BatchJoin
  \/ BatchReject
SpecBatch == InitBatch /\ [][NextBatch]_vars

\* createRouter registering the routes of a schema
InitSetup == SInit /\ EhIdle /\ HIdle /\ BIdle /\ DIdle
NextSetup ==
  \/ CreateQueryRoute
  \/ CreateMutationRoute
  \/ RegisterFixedRoutes
SpecSetup == InitSetup /\ [][NextSetup]_vars


\* the building of the interface description document: the components of the
\* type map, then the batching setup (createRouter) or addRoute calls (OpenAPI)
InitDoc == DInit /\ EhIdle /\ HIdle /\ BIdle /\ SIdle
NextDoc ==
  \/ BuildComponent
  \/ BatchingSetup
  \/ AddRoute
SpecDoc == InitDoc /\ [][NextDoc]_vars
(***************************************************************************)
(* Claims about defaultErrorHandler (checked under SpecErr)                *)
(***************************************************************************)

\* the errors the loop reads a hint from
Hinting(errors) == {i \in 1..Len(errors) : errors[i].obj /\ errors[i].hasHttp}

HintedStatuses(errors) == {errors[i].status : i \in Hinting(errors)} \ {0}

\* C5: for every list of errors, empty or not, the status of the response of the
\* default error handler is the largest status hinted by any error, and 500 when
\* no error hints a status.
C5_StatusIsMaxHint ==
  ehPc = "returned" =>
    ehResp.status = IF HintedStatuses(ehErrors) = {} THEN 500
                    ELSE SetMax(HintedStatuses(ehErrors))

\* C5 witness: the larger hint comes first, a smaller one after it, and the larger wins.
C5_Witness ==
  /\ ehPc = "returned"
  /\ Len(ehErrors) = 2
  /\ ehErrors[1].status = 404
  /\ ehErrors[2].status = 400
  /\ ehResp.status = 404

\* C6 as stated: every header hinted by any error is in the response's headers
\* with the value that error hinted.
C6_EveryHintedHeaderKept ==
  ehPc = "returned" =>
    \A i \in Hinting(ehErrors) : \A k \in DOMAIN ehErrors[i].headers :
      /\ k \in DOMAIN ehResp.headers
      /\ ehResp.headers[k] = ehErrors[i].headers[k]

\* the last error of the list that hints header k
LastHinting(errors, k) ==
  SetMax({i \in Hinting(errors) : k \in DOMAIN errors[i].headers})

\* C6 amended: every header name hinted by any error is in the response's headers,
\* with the value hinted by the last error of the list that hints that name.
C6_HintedHeaderLastWins ==
  ehPc = "returned" =>
    \A i \in Hinting(ehErrors) : \A k \in DOMAIN ehErrors[i].headers :
      /\ k \in DOMAIN ehResp.headers
      /\ ehResp.headers[k] = ehErrors[LastHinting(ehErrors, k)].headers[k]

\* C6 witness: two errors hint the same header with different values and a third
\* header is hinted by the first only; the response holds the second's value and
\* the first's other header.
C6_Witness ==
  /\ ehPc = "returned"
  /\ Len(ehErrors) = 2
  /\ ehErrors[1].headers = ("X-A" :> "1") @@ ("Retry-After" :> "9")
  /\ ehErrors[2].headers = ("X-A" :> "2")
  /\ ehResp.headers["X-A"] = "2"
  /\ ehResp.headers["Retry-After"] = "9"

(***************************************************************************)
(* Claims about the handler of a route (checked under SpecHandler)         *)
(***************************************************************************)
\* the handler is past the resolution of its variables
HResolved == hPc \in {"context", "execute", "done"}

\* a variable of the route that isInPath classifies as a path parameter, whose
\* type is non-null, and that the path parameters of the request do not hold
MissingRequiredPathVariable(route, req) ==
  \E i \in 1..Len(route.variables) :
    /\ isInPath(route.path, route.variables[i].name)
    /\ route.variables[i].nonNull
    /\ route.variables[i].name \notin DOMAIN req.params

\* C4: a request to a route whose path-classified non-null variable is absent
\* from the path parameters never reaches the context factory or execute; the
\* handler ends it with a single error hinting 400 given to the error handler.
C4_MissingPathVariableStops ==
  (HResolved /\ MissingRequiredPathVariable(hRoute, hReq)) =>
    /\ hCtxCalls = 0
    /\ hExecCalls = 0
    /\ hPc = "done"
    /\ Len(hErrArg) = 1
    /\ hErrArg[1].status = 400

\* the body of the request is a non-empty text that is not JSON
MalformedBody(req) == req.body.kind = "invalid"

\* some variable's picked value fails coercion
CoercionFails(route, req) ==
  \E i \in 1..Len(route.variables) :
    ~parseVariable(pickParam(route.variables[i].name, req.url, req.params,
                             ParseBody(req.body)),
                   route.variables[i]).ok

\* C7: a malformed body or a value that fails coercion ends the handler with one
\* call of the error handler (the one execution errors go to), on a one-element
\* list whose error hints status 400, before the context factory or execute is
\* called; the default handler answers 400 with {errors} of that one error, its
\* http hint removed.
C7_ClientInputFailureIs400 ==
  (hPc \notin {"idle", "text"} /\ (MalformedBody(hReq) \/ CoercionFails(hRoute, hReq))) =>
    /\ hPc = "done"
    /\ hErrCalls = 1
    /\ hCtxCalls = 0
    /\ hExecCalls = 0
    /\ Len(hErrArg) = 1
    /\ hErrArg[1].hasHttp
    /\ hErrArg[1].status = 400
    /\ hResp = ErrorHandler(hCustom, hErrArg)
    /\ ~hCustom =>
         /\ hResp.status = 400
         /\ hResp.kind = "errors"
         /\ Len(hResp.errors) = 1
         /\ hResp.errors[1].msg = hErrArg[1].msg
         /\ ~hResp.errors[1].hasHttp

\* C7 witness: a well-formed body, a query value that is no Int, the default
\* error handler, and the 400 response.
C7_Witness ==
  /\ hPc = "done"
  /\ ~hCustom
  /\ hReq.body.kind = "object"
  /\ CoercionFails(hRoute, hReq)
  /\ hResp.status = 400
  /\ hResp.kind = "errors"

\* C8: when execute returns a result without field errors, the response is the
\* data of the root field of the route at the route's response status; when the
\* result has at least one field error, the response is what the error handler
\* makes of those errors.
C8_ResponseFollowsResult ==
  (hPc = "done" /\ hResult # <<>>) =>
    IF hResult[1].errors = <<>>
    THEN /\ hResp.kind = "data"
         /\ hResp.data = RootFieldData(hResult[1], hRoute.fieldName)
         /\ hResp.status = hRoute.responseStatus
    ELSE hResp = ErrorHandler(hCustom, hResult[1].errors)

\* the query component of a url: all that follows its first "?"
UrlQuery(url) ==
  LET i == IndexOf(url, "?")
  IN IF i = 0 THEN <<>> ELSE SubSeq(url, i + 1, Len(url))

\* the raw value of a variable by the precedence path, query, body
ExpectedPick(name, req) ==
  LET values == GetAll(ParseUrlEncoded(UrlQuery(req.url)), name)
      body == ParseBody(req.body)
  IN IF name \in DOMAIN req.params THEN Raw("params", FALSE, <<req.params[name]>>, FALSE)
     ELSE IF values # <<>> THEN Raw("query", Len(values) # 1, values, FALSE)
     ELSE IF body.truthy /\ name \in DOMAIN body.obj
       THEN Raw("body", FALSE, <<body.obj[name].str>>, body.obj[name].null)
     ELSE Undefined

\* C9: the raw value picked for a variable is the path parameter of its name if
\* there is one, else the value(s) of its name in the query string of the url
\* (the one value, or the sequence of all when there are several), else the key
\* of its name in the body; a variable found in none is not among the variables
\* given to execute.
C9_PickPrecedence ==
  HResolved =>
    \A n \in DOMAIN hPicked :
      /\ hPicked[n] = ExpectedPick(n, hReq)
      /\ ExpectedPick(n, hReq) = Undefined => n \notin DOMAIN hVariableValues

(***************************************************************************)
(* Claims about the handler of POST /batch (checked under SpecBatch)       *)
(***************************************************************************)
\* the batch handler is past the limit test
BStarted == bPc \in {"joining", "done"}

WithinLimit == Len(bItems) <= bLimit

\* C1: a batch within the limit always ends with a 200 response that has one
\* slot per input item, whatever fails in a sub-item (a non-200 sub-response, an
\* exception while it is dispatched, a body that cannot be read): each slot holds
\* its own item's {status, body}.
C1_FailureStaysInItsSlot ==
  (bPc = "done" /\ WithinLimit) =>
    /\ bResp.kind = "ok"
    /\ bResp.status = 200
    /\ Len(bResp.body) = Len(bItems)

C3_LimitGatesDispatch ==
  BStarted =>
    IF Len(bItems) > bLimit
    THEN /\ bResp.status = 413
         /\ \A i \in 1..Len(bItems) : bDispatched[i] = 0
    ELSE \A i \in 1..Len(bItems) : bDispatched[i] = 1

\* C3 amended: over the limit the response is a single 413 and no item is
\* dispatched; within the limit every item whose request can be built is
\* dispatched exactly once, and an item whose request cannot be built (new URL
\* throws on its path) is not dispatched.
C3_LimitGatesDispatchOfBuiltRequests ==
  /\ ~BStarted => \A i \in 1..Len(bItems) : bDispatched[i] = 0
  /\ BStarted =>
       IF Len(bItems) > bLimit
       THEN /\ bPc = "done"
            /\ bResp.kind = "tooLarge"
            /\ bResp.status = 413
            /\ \A i \in 1..Len(bItems) : bDispatched[i] = 0
       ELSE \A i \in 1..Len(bItems) :
              bDispatched[i] = IF RequestConstructs(bItems[i]) THEN 1 ELSE 0

\* C3 witness: one item more than the limit, each with a request that could be
\* built, answered 413 with nothing dispatched.
C3_Witness ==
  /\ bPc = "done"
  /\ Len(bItems) = bLimit + 1
  /\ \A i \in 1..Len(bItems) : RequestConstructs(bItems[i]) /\ bDispatched[i] = 0
  /\ bResp.status = 413


\* the request the server context of item i's handler refers to: the handler
\* holds the object it did Object.assign(serverContext, {request}) on
RequestSeenBy(i) == IF bCtxShared THEN bCtxRequest ELSE i

\* C18: while the sub-requests of a batch are in flight, the request field of
\* the server context a sub-request's handler gave sofa.contextFactory, and
\* that execution goes on with, is that sub-request's own request.
C18_ContextRequestIsOwn ==
  \A i \in 1..Len(bItems) : bItemPc[i] = "context" => RequestSeenBy(i) = i

\* the sub-requests one POST /batch call has dispatched into the router: those
\* of its own items and those of the batch handlers its items entered
TotalDispatched ==
  LET RECURSIVE Sum(_, _)
      Sum(counts, i) == IF i > Len(counts) THEN 0 ELSE counts[i] + Sum(counts, i + 1)
  IN Sum(bDispatched, 1) + Sum(bNested, 1)

\* C20: the sub-requests dispatched for one POST /batch call, those dispatched
\* for an item that is itself a POST /batch with an array as params included,
\* are never more than sofa.batching.limit.
C20_TotalDispatchWithinLimit == TotalDispatched <= bLimit
(***************************************************************************)
(* Claims about the routes of the root fields (checked under SpecSetup)    *)
(***************************************************************************)
\* the type is an object type under non-null wrappers only: no list
SingleObject(type) ==
  /\ type.kind = "object"
  /\ \A i \in 1..Len(type.wrappers) : type.wrappers[i] # "List"

ArgNames(field) == {field.args[i].name : i \in 1..Len(field.args)}

\* the registrations made for a root field
RegistrationsOf(kind, fieldName) ==
  {i \in 1..Len(sRegistered) :
     sRegistered[i].kind = kind /\ sRegistered[i].fieldName = fieldName}

HasOverride(kind, field) ==
  graphqlPath(RootTypeName(kind), field.name) \in DOMAIN sRoutes

\* C10: once createRouter is done, every root field without an override has
\* exactly one route: a query field GET at /<name>/:id when its return type is a
\* single object and it has an argument named id, else at /<name>; a mutation
\* field POST at /<name>, without :id even with an id argument; both with
\* response status 200. <name> is the field's name in kebab case.
C10_DefaultRoutes ==
  sPc = "done" =>
    \A kind \in {"query", "mutation"} : \A f \in 1..Len(sSchema[kind]) :
      LET field == sSchema[kind][f]
          wantsId == kind = "query" /\ SingleObject(field.type) /\ IdName \in ArgNames(field)
      IN ~HasOverride(kind, field) =>
           /\ Cardinality(RegistrationsOf(kind, field.name)) = 1
           /\ \A i \in RegistrationsOf(kind, field.name) :
                /\ sRegistered[i].method = (IF kind = "query" THEN "GET" ELSE "POST")
                /\ sRegistered[i].path =
                     <<"/">> \o convertName(field.name)
                       \o (IF wantsId THEN <<"/", ":", "i", "d">> ELSE <<>>)
                /\ sRegistered[i].responseStatus = 200

\* C10 witness: no overrides; the query field getMe(id: ID!): Obj! is at
\* GET /get-me/:id and the mutation field getMe(id: ID!): Obj! at POST /get-me.
C10_Witness ==
  /\ sPc = "done"
  /\ sRoutes = EmptyObject
  /\ Len(sSchema.query) = 1
  /\ Len(sSchema.mutation) = 1
  /\ sSchema.query[1].type = GraphQLType(<<"NonNull">>, "A")
  /\ sSchema.mutation[1].type = GraphQLType(<<"NonNull">>, "A")
  /\ hasIdArgument(sSchema.query[1])
  /\ hasIdArgument(sSchema.mutation[1])
  /\ sRegistered[1].method = "GET"
  /\ sRegistered[1].path = <<"/", "g", "e", "t", "-", "m", "e", "/", ":", "i", "d">>
  /\ sRegistered[2].method = "POST"
  /\ sRegistered[2].path = <<"/", "g", "e", "t", "-", "m", "e">>


\* the RouteInfos returned for a root field
InfosOf(kind, fieldName) ==
  {i \in 1..Len(sInfos) : sInfos[i].kind = kind /\ sInfos[i].fieldName = fieldName}

\* the route a root field gets when nothing overrides it
DefaultMethod(kind) == IF kind = "query" THEN "GET" ELSE "POST"
DefaultPath(kind, field) ==
  <<"/">> \o convertName(field.name)
    \o (IF kind = "query" /\ SingleObject(field.type) /\ IdName \in ArgNames(field)
        THEN <<"/", ":", "i", "d">> ELSE <<>>)
DefaultDescription(field) ==
  IF field.description = "undefined" THEN "" ELSE field.description

\* what a key of the route is to be: the override's value when the override
\* sets the key, the default otherwise
Overridden(override, key, default) ==
  IF key \in override.given THEN override[key] ELSE default

\* C11: once createRouter is done, a root field with an override entry under
\* "<RootType>.<field>" has one route and one RouteInfo, and each of method,
\* path, response status, tags and description is the override's value when the
\* entry sets that key and the default when it does not, whatever other keys
\* the entry sets.
C11_OverridesApplyPerKey ==
  sPc = "done" =>
    \A kind \in {"query", "mutation"} : \A f \in 1..Len(sSchema[kind]) :
      LET field == sSchema[kind][f]
          key == graphqlPath(RootTypeName(kind), field.name)
      IN HasOverride(kind, field) =>
           /\ Cardinality(RegistrationsOf(kind, field.name)) = 1
           /\ Cardinality(InfosOf(kind, field.name)) = 1
           /\ \A i \in RegistrationsOf(kind, field.name) :
                /\ sRegistered[i].method =
                     Overridden(sRoutes[key], "method", DefaultMethod(kind))
                /\ sRegistered[i].path =
                     Overridden(sRoutes[key], "path", DefaultPath(kind, field))
                /\ sRegistered[i].responseStatus =
                     Overridden(sRoutes[key], "responseStatus", 200)
           /\ \A i \in InfosOf(kind, field.name) :
                /\ sInfos[i].path =
                     Overridden(sRoutes[key], "path", DefaultPath(kind, field))
                /\ sInfos[i].tags = Overridden(sRoutes[key], "tags", <<>>)
                /\ sInfos[i].description =
                     Overridden(sRoutes[key], "description", DefaultDescription(field))

\* C11 witness: the query field getMe(id: ID!): Obj! with an override that sets
\* only the method keeps its default path, status, tags and description.
C11_Witness ==
  /\ sPc = "done"
  /\ Len(sSchema.query) >= 1
  /\ sSchema.query[1].type = GraphQLType(<<"NonNull">>, "A")
  /\ hasIdArgument(sSchema.query[1])
  /\ graphqlPath(QueryTypeName, sSchema.query[1].name) \in DOMAIN sRoutes
  /\ sRoutes[graphqlPath(QueryTypeName, sSchema.query[1].name)].given = {"method"}
  /\ sRegistered[1].method = "PUT"
  /\ sRegistered[1].path = <<"/", "g", "e", "t", "-", "m", "e", "/", ":", "i", "d">>
  /\ sRegistered[1].responseStatus = 200
  /\ sInfos[1].tags = <<>>
  /\ sInfos[1].description = "doc"

\* the placeholder tokens of a path template: the segments :name and {name}
PlaceholderTokens(path) ==
  LET segments == Split(path, "/")
  IN {Tail(segments[i]) : i \in {j \in 1..Len(segments) :
                                   segments[j] # <<>> /\ Head(segments[j]) = ":"}}
     \cup {SubSeq(segments[i], 2, Len(segments[i]) - 1) :
             i \in {j \in 1..Len(segments) :
                      /\ Len(segments[j]) >= 2
                      /\ Head(segments[j]) = "{"
                      /\ segments[j][Len(segments[j])] = "}"}}

\* the locations the schemas of a registered route list a variable in
LocationsOf(schemas, name) ==
  (IF name \in DOMAIN schemas.request.params.properties THEN {"path"} ELSE {})
  \cup (IF name \in DOMAIN schemas.request.query.properties THEN {"query"} ELSE {})
  \cup (IF schemas.request.json # NoJson /\ name \in DOMAIN schemas.request.json.properties
        THEN {"body"} ELSE {})

\* the variable is in the required list of the location
RequiredIn(schemas, location, name) ==
  LET required ==
        IF location = "path" THEN schemas.request.params.required
        ELSE IF location = "query" THEN schemas.request.query.required
        ELSE IF "required" \in DOMAIN schemas.request.json
             THEN schemas.request.json.required ELSE <<>>
  IN \E i \in 1..Len(required) : required[i] = name

\* the one location a variable belongs to
ExpectedLocation(method, path, name) ==
  IF name \in PlaceholderTokens(path) THEN "path"
  ELSE IF ToUpperCase(method) \in {"GET", "DELETE"} THEN "query"
  ELSE "body"

\* C12: in the schemas of every route registered for a root field, each
\* variable of the route's operation is listed in exactly one location: path iff
\* its name is a placeholder token of the route's path, else query for GET and
\* DELETE and body for POST, PUT and PATCH; and it is in the required list of
\* that location iff its type is non-null.
C12_OneLocationPerVariable ==
  \A i \in 1..Len(sRegistered) :
    sRegistered[i].kind \in {"query", "mutation"} =>
      LET reg == sRegistered[i]
          field == CHOOSE fld \in {sSchema[reg.kind][f] : f \in 1..Len(sSchema[reg.kind])} :
                     fld.name = reg.fieldName
      IN \A a \in 1..Len(field.args) :
           LET name == field.args[a].name
               location == ExpectedLocation(reg.method, reg.path, name)
           IN /\ LocationsOf(reg.schemas, name) = {location}
              /\ RequiredIn(reg.schemas, location, name) <=> field.args[a].nonNull

\* C13: for every route registered for a root field, with or without a path
\* override, every placeholder token of the route's path is the name of a
\* variable of the route's operation.
C13_PlaceholdersAreVariables ==
  \A i \in 1..Len(sRegistered) :
    sRegistered[i].kind \in {"query", "mutation"} =>
      LET reg == sRegistered[i]
          field == CHOOSE fld \in {sSchema[reg.kind][f] : f \in 1..Len(sSchema[reg.kind])} :
                     fld.name = reg.fieldName
          variables == OperationVariables(field)
      IN PlaceholderTokens(reg.path) \subseteq {variables[v].name : v \in 1..Len(variables)}

(***************************************************************************)
(* Claims about the type mapper and the document (checked under SpecDoc)   *)
(***************************************************************************)
\* the fragment under the array wrappers of a fragment
RECURSIVE InnerFragment(_)
InnerFragment(fragment) ==
  IF "type" \in DOMAIN fragment /\ fragment.type = "array"
  THEN InnerFragment(fragment.items) ELSE fragment

\* the named types whose component in components.schemas is the one the type
\* mapper built for them
MappedTypes ==
  {name \in DOMAIN dSchemas :
     /\ KindOf(name) \in {"object", "input"}
     /\ ~(dPc = "done" /\ name = "BatchItem")}

RequiredListOf(component) ==
  IF "required" \in DOMAIN component
  THEN {component.required[i] : i \in 1..Len(component.required)} ELSE {}

\* C14: in the component built for a named object or input type T, the
\* properties are exactly T's declared fields, a field is in the required list
\* iff its type is non-null, and a field whose type, under its non-null and list
\* wrappers, is a named object or input-object type is mapped to a reference to
\* the component of that name, under one array per list wrapper.
C14_NamedTypesByReference ==
  \A T \in MappedTypes :
    LET fields == dSchema.fields[T]
    IN /\ DOMAIN dSchemas[T].properties = {fields[i].name : i \in 1..Len(fields)}
       /\ RequiredListOf(dSchemas[T]) =
            {fields[i].name : i \in {j \in 1..Len(fields) :
                                       fields[j].type.wrappers # <<>>
                                       /\ Head(fields[j].type.wrappers) = "NonNull"}}
       /\ \A i \in 1..Len(fields) :
            KindOf(fields[i].type.name) \in {"object", "input"} =>
              InnerFragment(dSchemas[T].properties[fields[i].name])
                = [ref |-> <<"#/components/schemas/", fields[i].type.name>>]

\* the root field of an operation object of the document
FieldOfOperation(operation) ==
  LET fields == dSchema.fields["Query"] \o dSchema.fields["Mutation"]
  IN fields[FieldNamed(fields, operation.operationId)]

\* the type of the argument a variable was made of
ArgTypeOf(field, name) == field.args[FieldNamed(field.args, name)].type

\* the operation objects of the document
Operations ==
  UNION {{dPaths[path][method] : method \in DOMAIN dPaths[path]} : path \in DOMAIN dPaths}

\* C15: the schema of every parameter and of every request-body property of an
\* operation of the document is the fragment the field type mapper gives for
\* the type of the variable (any nesting of non-null and list over a primitive
\* scalar, a declared custom scalar, an unmapped scalar, an enum or an
\* input-object type).
C15_ParamSchemaIsFieldSchema ==
  \A operation \in Operations :
    LET field == FieldOfOperation(operation)
    IN /\ \A i \in 1..Len(operation.parameters) :
            operation.parameters[i].schema =
              resolveFieldType(ArgTypeOf(field, operation.parameters[i].name),
                               dCustomScalars)
       /\ operation.requestBody # NoRequestBody =>
            \A name \in DOMAIN operation.requestBody.properties :
              operation.requestBody.properties[name] =
                resolveFieldType(ArgTypeOf(field, name), dCustomScalars)

\* every entry of components.schemas and every path/method entry of paths is
\* still there, unchanged, after the step
EntriesKept ==
  /\ \A name \in DOMAIN dSchemas :
       name \in DOMAIN dSchemas' /\ dSchemas'[name] = dSchemas[name]
  /\ \A path \in DOMAIN dPaths :
       /\ path \in DOMAIN dPaths'
       /\ \A method \in DOMAIN dPaths[path] :
            method \in DOMAIN dPaths'[path] /\ dPaths'[path][method] = dPaths[path][method]

\* C16: once the document is built from the type map, every step that changes
\* it (the batching setup, any addRoute call) only adds: no entry of
\* components.schemas and no path/method entry that exists is replaced or deleted.
C16_DocumentOnlyGrows == [][dPc = "built" => EntriesKept]_vars

\* the object and input types of the type map that are to have a component
ComponentTypes ==
  {dSchema.order[i] : i \in {j \in 1..Len(dSchema.order) :
     /\ KindOf(dSchema.order[j]) \in {"object", "input"}
     /\ dSchema.order[j] \notin IntrospectionTypeNames}}

\* how many times the key was assigned in components.schemas
TimesDefined(name) == Cardinality({i \in 1..Len(dWrites) : dWrites[i] = name})

\* C17: for every type map, with types that refer to each other (A.b: B and
\* B.a: A, In.other: In2 and In2.back: In) or to themselves (A.self, In.self), the
\* loop over the type map ends, and when it has ended every object and input
\* type has its component, assigned exactly once, in which every field of a
\* named object or input type is a reference to that type's component.
C17_CyclesBuildOnceByReference ==
  dPc = "built" =>
    \A T \in ComponentTypes :
      /\ T \in DOMAIN dSchemas
      /\ TimesDefined(T) = 1
      /\ \A i \in 1..Len(dSchema.fields[T]) :
           LET field == dSchema.fields[T][i]
           IN field.type.name \in ComponentTypes =>
                /\ InnerFragment(dSchemas[T].properties[field.name])
                     = [ref |-> <<"#/components/schemas/", field.type.name>>]
                /\ field.type.name \in DOMAIN dSchemas

\* the component a fragment refers to, under its array wrappers, if it is a
\* reference
RefTargets(fragment) ==
  IF "ref" \in DOMAIN InnerFragment(fragment) THEN {InnerFragment(fragment).ref[2]} ELSE {}

\* the components referred to from the components and from the operations
ReferencedComponents ==
  UNION {UNION {RefTargets(dSchemas[name].properties[p]) :
                  p \in DOMAIN dSchemas[name].properties} :
           name \in {n \in DOMAIN dSchemas : "properties" \in DOMAIN dSchemas[n]}}
  \cup UNION {UNION {RefTargets(operation.parameters[i].schema) :
                       i \in 1..Len(operation.parameters)} :
                operation \in Operations}
  \cup UNION {UNION {RefTargets(operation.requestBody.properties[p]) :
                       p \in DOMAIN operation.requestBody.properties} :
                operation \in {o \in Operations : o.requestBody # NoRequestBody}}
  \cup UNION {RefTargets(operation.responses) : operation \in Operations}

\* C19: once the components are built, every reference in the document (in a
\* component's property, in a parameter schema, in a request body, in a
\* response) names a key of components.schemas.
C19_ReferencesResolve ==
  dPc # "seeding" => ReferencedComponents \subseteq DOMAIN dSchemas
====
